---- MODULE Spec2Model ----
(***************************************************************************)
(* Model of src/activateFlows.js (flow-activator-js): the interactive     *)
(* session of main(), the org directory reader getAuthenticatedOrgs(),    *)
(* the credential resolver getSfInstance() and the four-step activator    *)
(* activateLatestFlow(), run against a remote org whose flow metadata     *)
(* another process may change between the activator's remote calls.       *)
(*                                                                         *)
(* A text (a flow name, the operator's input) is a sequence of            *)
(* characters.  A console line is a record of its kind and of the values  *)
(* interpolated into its template.                                         *)
(***************************************************************************)
EXTENDS Integers, Sequences, FiniteSets, TLC

\* ------------------------------------------------------------------ bounds
\* Longest operator input explored by the flow-name prompt alone (SpecFormat).
MaxLen == 4
\* Longest listing returned by the external org-listing command.
MaxOrgs == 2
\* Most versions a flow has on the remote org.
MaxVersion == 2

\* ------------------------------------------------------------- vocabulary
Chars == {"a", "b", ";", " "}

AliasNames == <<"Org1", "Org2", "Org3", "Org4">>

Statuses == {"Connected", "Disconnected"}

RECURSIVE TextsOfLen(_)
TextsOfLen(n) ==
    IF n = 0 THEN {<< >>}
    ELSE {Append(t, c) : t \in TextsOfLen(n - 1), c \in Chars}

\* Everything the operator can type at the flow-name prompt, up to MaxLen.
AllInputs == UNION {TextsOfLen(n) : n \in 0..MaxLen}

\* The inputs the whole-run specification enumerates: nothing typed, one name,
\* two names, and a name followed by a trailing separator.
RunInputs == { << >>, <<"a">>, <<"a", ";", "b">>, <<"a", ";">> }

\* The listings the external command can print: entry i carries alias i.
Listings ==
    UNION { [1..n -> Statuses] : n \in 0..MaxOrgs }

OrgRecord(i, status) == [alias |-> AliasNames[i], connectedStatus |-> status]

ListingOf(f) == [i \in DOMAIN f |-> OrgRecord(i, f[i])]

\* JavaScript's undefined and null.
Undefined == "undefined"

Null == "null"

\* ------------------------------------------------------- pure functions
\* Mutant of IsConnected: the listing is not filtered at all.
IsConnectedAny(org) == org.connectedStatus \in Statuses

\* line 34: org => org.connectedStatus === 'Connected'
IsConnected(org) == org.connectedStatus = "Connected"

RECURSIVE ConnectedOrgs(_)
\* line 34: nonScratchOrgs.filter(org => ...), the entries kept in listing order
ConnectedOrgs(nonScratchOrgs) ==
    IF nonScratchOrgs = << >> THEN << >>
    ELSE IF IsConnected(Head(nonScratchOrgs))
         THEN <<Head(nonScratchOrgs)>> \o ConnectedOrgs(Tail(nonScratchOrgs))
         ELSE ConnectedOrgs(Tail(nonScratchOrgs))

\* line 132: orgs.map(org => ({ title: org.alias, value: org.alias }))
OrgChoices(orgs) == [i \in DOMAIN orgs |-> [title |-> orgs[i].alias, value |-> orgs[i].alias]]

RECURSIVE TrimStart(_)
TrimStart(t) ==
    IF t # << >> /\ Head(t) = " " THEN TrimStart(Tail(t)) ELSE t

RECURSIVE TrimEnd(_)
TrimEnd(t) ==
    IF t # << >> /\ t[Len(t)] = " " THEN TrimEnd(SubSeq(t, 1, Len(t) - 1)) ELSE t

\* String.prototype.trim (line 122: name => name.trim())
Trim(t) == TrimEnd(TrimStart(t))

RECURSIVE Split(_, _)
\* String.prototype.split with a one-character separator: one piece more than
\* there are separators, so the empty text splits into one empty piece.
Split(t, sep) ==
    IF \E i \in 1..Len(t) : t[i] = sep
    THEN LET i == CHOOSE k \in 1..Len(t) :
                      t[k] = sep /\ \A j \in 1..(k - 1) : t[j] # sep
         IN  <<SubSeq(t, 1, i - 1)>> \o Split(SubSeq(t, i + 1, Len(t)), sep)
    ELSE <<t>>

\* line 121: validate: value => value ? true : '...'  (a text is truthy iff non-empty)
Validate(value) == value # << >>

\* line 122: format: input => input.split(';').map(name => name.trim())
Format(input) ==
    LET pieces == Split(input, ";")
    IN  [i \in DOMAIN pieces |-> Trim(pieces[i])]

\* line 126: !flowAnswers.flowNames.  The answers object is the sequence of the
\* values it holds: empty when the prompt was cancelled, else the formatted
\* array, and an array (even an empty one) is truthy.
FlowNamesMissing(answers) == answers = << >>

\* line 141: validate: value => value.length > 0 ? ...  (taken as the source
\* states it: a selection is submitted only when it passes)
ValidateSelection(value) == Len(value) > 0

\* Mutant of Credential: whatever the alias, the first listed org's session.
CredentialOfFirstOrg(orgAlias) ==
    [accessToken |-> <<"token", AliasNames[1]>>, instanceUrl |-> <<"url", AliasNames[1]>>]

\* line 50: the credential getSfInstance returns for an org
Credential(orgAlias) ==
    [accessToken |-> <<"token", orgAlias>>, instanceUrl |-> <<"url", orgAlias>>]

NoCredential == [accessToken |-> <<"token", Undefined>>, instanceUrl |-> <<"url", Undefined>>]

\* The opaque Id of version n of a flow on the remote org.
VersionId(n) == <<"FlowVersion", n>>

\* Mutant of LatestVersionQuery: the query orders by VersionNumber ascending.
LatestVersionQueryAscending(r) ==
    IF r.versions = 0 THEN << >>
    ELSE <<[Id |-> VersionId(1), VersionNumber |-> 1]>>

\* line 68: ... ORDER BY VersionNumber DESC LIMIT 1, answered by the remote org
LatestVersionQuery(r) ==
    IF r.versions = 0 THEN << >>
    ELSE <<[Id |-> VersionId(r.versions), VersionNumber |-> r.versions]>>

\* line 80: SELECT Id FROM FlowDefinition WHERE DeveloperName = ...
DefinitionQuery(r) ==
    IF r.defExists THEN <<[Id |-> "FlowDefinitionId"]>> ELSE << >>

\* line 96: SELECT ActiveVersionId FROM FlowDefinition WHERE Id = ...
VerificationQuery(r) ==
    IF r.defExists
    THEN <<[ActiveVersionId |-> IF r.active = 0 THEN <<Null, 0>> ELSE VersionId(r.active)]>>
    ELSE << >>

\* Mutant of Verified: any record that comes back counts as a verification.
VerifiedAnyRecord(verificationResult, latestVersionId) ==
    verificationResult # << >>

\* line 100: verificationResult?.ActiveVersionId === latestVersionId
Verified(verificationResult, latestVersionId) ==
    IF verificationResult = << >> THEN FALSE
    ELSE Head(verificationResult).ActiveVersionId = latestVersionId

\* line 72: !latestFlow
NoVersion(record) == record = << >>

\* Mutant of NoDefinition: the missing definition record goes unnoticed.
NoDefinitionIgnored(record) == FALSE

\* line 84: !flowDefinition
NoDefinition(record) == record = << >>

\* The states of one flow on a remote org: how many versions it has (numbered
\* 1..versions), which one is active (0: none) and whether its definition
\* record is visible.
RemoteStates ==
    { r \in [versions : 0..MaxVersion, active : 0..MaxVersion, defExists : BOOLEAN] :
        r.active <= r.versions }

\* Console lines: the template used and the values interpolated into it.
Line(kind, names, numbers) == [kind |-> kind, names |-> names, numbers |-> numbers]

NoLine == Line("none", << >>, << >>)

\* line 73
NotFoundLine(flowApiName) == Line("FlowNotFound", <<flowApiName>>, << >>)

\* line 85
DefinitionNotFoundLine(flowApiName) == Line("DefinitionNotFound", <<flowApiName>>, << >>)

\* line 101
ActivatedLine(flowApiName, n) == Line("Activated", <<flowApiName>>, <<n>>)

\* line 103
VerificationFailedLine(flowApiName, n) == Line("VerificationFailed", <<flowApiName>>, <<n>>)

\* line 106: `Error activating flow: ${error.message}`
RemoteErrorLine(flowApiName) == Line("RemoteError", << >>, << >>)

\* lines 127, 153
CancelledLine == Line("Cancelled", << >>, << >>)

\* ------------------------------------------------------------------ state
VARIABLES
    pc,               \* where main() stands
    promptError,      \* the flow-name prompt shows its validation message
    flowAnswers,      \* line 125: << >> (no flowNames) or <<the formatted array>>
    nonScratchOrgs,   \* line 33: the listing the external command printed
    orgChoices,       \* line 132
    selectedOrgs,     \* line 151: orgAnswers.selectedOrgs
    confirmation,     \* line 151: orgAnswers.confirmation is true
    orgIdx,           \* line 157: position of the outer loop in selectedOrgs
    flowIdx,          \* line 160: position of the inner loop in flowNames
    cred,             \* line 159: { accessToken, instanceUrl } of the current org
    latestFlow,       \* line 70: << >> or <<the record>>
    flowDefinition,   \* line 82: << >> or <<the record>>
    verificationResult, \* line 98: << >> or <<the record>>
    exitCode,         \* the process's exit code
    ending,           \* why the run ended
    events,           \* what main() did, in order: banners, credential
                      \* resolutions, activator invocations, status lines
    lastLine,         \* the console line printed last
    statusLine,       \* the line the current activation printed (NoLine: none yet)
    remote,           \* the flow being activated, on the current org
    calls,            \* the remote calls of the current activation, in order
    calledUrls,       \* every instanceUrl a remote call was ever sent to
    snapshotMax,      \* the highest versionNumber when the step-1 lookup ran
    errOrgs           \* positions in selectedOrgs where an activation threw

vars == <<pc, promptError, flowAnswers, nonScratchOrgs, orgChoices, selectedOrgs,
          confirmation, orgIdx, flowIdx, cred, latestFlow, flowDefinition,
          verificationResult, exitCode, ending, events, lastLine, statusLine,
          remote, calls, calledUrls, snapshotMax, errOrgs>>

promptVars == <<promptError, flowAnswers>>

orgVars == <<nonScratchOrgs, orgChoices, selectedOrgs, confirmation>>

loopVars == <<orgIdx, flowIdx, cred>>

activationVars == <<latestFlow, flowDefinition, verificationResult, statusLine, remote,
                    calls, snapshotMax>>

historyVars == <<events, calledUrls, errOrgs>>

\* line 160: flowAnswers.flowNames
FlowNames == Head(flowAnswers)

Event(kind, org, flow) == [kind |-> kind, org |-> org, flow |-> flow]

Call(step, flowApiName, body, ok) ==
    [step |-> step, accessToken |-> cred.accessToken, instanceUrl |-> cred.instanceUrl,
     flowApiName |-> flowApiName, body |-> body, ok |-> ok]

Init ==
    /\ pc = "flowPrompt"
    /\ promptError = FALSE
    /\ flowAnswers = << >>
    /\ nonScratchOrgs = << >>
    /\ orgChoices = << >>
    /\ selectedOrgs = << >>
    /\ confirmation = FALSE
    /\ orgIdx = 0
    /\ flowIdx = 0
    /\ cred = NoCredential
    /\ latestFlow = << >>
    /\ flowDefinition = << >>
    /\ verificationResult = << >>
    /\ exitCode = 0
    /\ ending = "running"
    /\ events = << >>
    /\ lastLine = NoLine
    /\ statusLine = NoLine
    /\ remote = [versions |-> 0, active |-> 0, defExists |-> FALSE]
    /\ calls = << >>
    /\ calledUrls = {}
    /\ snapshotMax = 0
    /\ errOrgs = {}

\* main() returns (lines 128, 154, 164) and nothing is pending: exit code unchanged.
Return(why) ==
    /\ pc' = "done"
    /\ ending' = why

\* process.exit(1) (lines 37, 53)
Exit1(why) ==
    /\ pc' = "done"
    /\ ending' = why
    /\ exitCode' = 1

\* ------------------------------------------------- prompt 1 (lines 117-129)
\* The operator submits `input`: validate sees the raw text, format the accepted one.
FlowPromptSubmit(input) ==
    /\ pc = "flowPrompt"
    /\ IF Validate(input)
       THEN /\ flowAnswers' = <<Format(input)>>
            /\ promptError' = FALSE
            /\ IF FlowNamesMissing(flowAnswers')
               THEN Return("cancelled") /\ lastLine' = CancelledLine
               ELSE pc' = "listOrgs" /\ UNCHANGED <<ending, lastLine>>
       ELSE /\ promptError' = TRUE
            /\ UNCHANGED <<pc, flowAnswers, ending, lastLine>>
    /\ UNCHANGED <<orgVars, loopVars, activationVars, historyVars, exitCode>>

\* The operator aborts the prompt: the answers hold no flowNames.
FlowPromptCancel ==
    /\ pc = "flowPrompt"
    /\ flowAnswers' = << >>
    /\ FlowNamesMissing(flowAnswers')
    /\ Return("cancelled")
    /\ lastLine' = CancelledLine
    /\ UNCHANGED <<promptError, orgVars, loopVars, activationVars, historyVars, exitCode>>

\* ---------------------------------------- getAuthenticatedOrgs (lines 30-39)
GetAuthenticatedOrgsOk ==
    /\ pc = "listOrgs"
    /\ \E f \in Listings :
         /\ nonScratchOrgs' = ListingOf(f)
         /\ orgChoices' = OrgChoices(ConnectedOrgs(nonScratchOrgs'))
    /\ pc' = "orgPrompt"
    /\ UNCHANGED <<promptVars, selectedOrgs, confirmation, loopVars, activationVars,
                   historyVars, exitCode, ending, lastLine>>

\* execSync or JSON.parse throws: the error is printed and the process exits.
GetAuthenticatedOrgsFail ==
    /\ pc = "listOrgs"
    /\ Exit1("listFailed")
    /\ lastLine' = Line("OrgListError", << >>, << >>)
    /\ UNCHANGED <<promptVars, orgVars, loopVars, activationVars, historyVars>>

\* ------------------------------------------ prompts 2 and 3 (lines 134-155)
RECURSIVE Pick(_, _, _)
\* The values of the choices whose positions are in `chosen`, in the choices' order.
Pick(choices, chosen, i) ==
    IF i > Len(choices) THEN << >>
    ELSE (IF i \in chosen THEN <<choices[i].value>> ELSE << >>) \o Pick(choices, chosen, i + 1)

OrgPromptSubmit ==
    /\ pc = "orgPrompt"
    /\ \E chosen \in SUBSET (1..Len(orgChoices)) :
         /\ ValidateSelection(Pick(orgChoices, chosen, 1))
         /\ selectedOrgs' = Pick(orgChoices, chosen, 1)
    /\ pc' = "confirmPrompt"
    /\ UNCHANGED <<promptVars, nonScratchOrgs, orgChoices, confirmation, loopVars,
                   activationVars, historyVars, exitCode, ending, lastLine>>

\* The operator aborts prompt 2 or prompt 3: orgAnswers holds no confirmation.
OrgPromptCancel ==
    /\ pc \in {"orgPrompt", "confirmPrompt"}
    /\ confirmation' = FALSE
    /\ Return("cancelled")
    /\ lastLine' = CancelledLine
    /\ UNCHANGED <<promptVars, nonScratchOrgs, orgChoices, selectedOrgs, loopVars,
                   activationVars, historyVars, exitCode>>

\* Mutant of ConfirmGate: the answer is not looked at.
ConfirmGateOpen(answer) ==
    pc' = "orgLoop" /\ orgIdx' = 1 /\ UNCHANGED <<ending, lastLine>>

\* line 152: if (!orgAnswers.confirmation) ... return
ConfirmGate(answer) ==
    IF ~answer
    THEN Return("cancelled") /\ lastLine' = CancelledLine /\ UNCHANGED orgIdx
    ELSE pc' = "orgLoop" /\ orgIdx' = 1 /\ UNCHANGED <<ending, lastLine>>

ConfirmPromptAnswer ==
    /\ pc = "confirmPrompt"
    /\ \E answer \in BOOLEAN :
         /\ confirmation' = answer
         /\ ConfirmGate(answer)
    /\ UNCHANGED <<promptVars, nonScratchOrgs, orgChoices, selectedOrgs, flowIdx, cred,
                   activationVars, historyVars, exitCode>>

\* ------------------------------------------- execution loop (lines 157-163)
\* The outer loop has run out of selected orgs: main() returns.
MainReturns ==
    /\ pc = "orgLoop"
    /\ orgIdx > Len(selectedOrgs)
    /\ Return("completed")
    /\ UNCHANGED <<promptVars, orgVars, loopVars, activationVars, historyVars,
                   exitCode, lastLine>>

\* lines 158-159 with getSfInstance succeeding (lines 47-50)
GetSfInstanceOk ==
    /\ pc = "orgLoop"
    /\ orgIdx <= Len(selectedOrgs)
    /\ LET orgAlias == selectedOrgs[orgIdx]
       IN  /\ events' = events \o <<Event("banner", orgAlias, 0), Event("credential", orgAlias, 0)>>
           /\ cred' = Credential(orgAlias)
    /\ flowIdx' = 1
    /\ pc' = "flowLoop"
    /\ UNCHANGED <<promptVars, orgVars, orgIdx, activationVars, calledUrls, errOrgs,
                   exitCode, ending, lastLine>>

\* Mutant of GetSfInstanceCatch: the failure sets the exit code (process.exitCode
\* = 1) without ending the process, and the loop goes on with the org's flows.
GetSfInstanceCatchGoesOn ==
    /\ exitCode' = 1
    /\ ending' = "credentialFailed"
    /\ lastLine' = Line("OrgDetailsError", << >>, << >>)
    /\ cred' = NoCredential
    /\ flowIdx' = 1
    /\ pc' = "flowLoop"
    /\ UNCHANGED orgIdx

\* lines 51-53: the catch of getSfInstance
GetSfInstanceCatch ==
    /\ Exit1("credentialFailed")
    /\ lastLine' = Line("OrgDetailsError", << >>, << >>)
    /\ UNCHANGED <<flowIdx, cred, orgIdx>>

\* lines 158-159 with execSync or JSON.parse throwing inside getSfInstance
GetSfInstanceFail ==
    /\ pc = "orgLoop"
    /\ orgIdx <= Len(selectedOrgs)
    /\ LET orgAlias == selectedOrgs[orgIdx]
       IN  events' = events \o <<Event("banner", orgAlias, 0), Event("credential", orgAlias, 0)>>
    /\ GetSfInstanceCatch
    /\ UNCHANGED <<promptVars, orgVars, activationVars, calledUrls, errOrgs>>

\* The inner loop has run out of flow names: on to the next org.
NextOrg ==
    /\ pc = "flowLoop"
    /\ flowIdx > Len(FlowNames)
    /\ orgIdx' = orgIdx + 1
    /\ pc' = "orgLoop"
    /\ UNCHANGED <<promptVars, orgVars, flowIdx, cred, activationVars, historyVars,
                   exitCode, ending, lastLine>>

\* line 161: activateLatestFlow is called for the next flow name.  The flow's
\* state on the org is whatever the org holds at that moment.
BeginActivation ==
    /\ pc = "flowLoop"
    /\ flowIdx <= Len(FlowNames)
    /\ events' = Append(events, Event("activate", selectedOrgs[orgIdx], flowIdx))
    /\ remote' \in RemoteStates
    /\ latestFlow' = << >>
    /\ flowDefinition' = << >>
    /\ verificationResult' = << >>
    /\ statusLine' = NoLine
    /\ calls' = << >>
    /\ snapshotMax' = 0
    /\ pc' = "versionLookup"
    /\ UNCHANGED <<promptVars, orgVars, loopVars, calledUrls, errOrgs, exitCode,
                   ending, lastLine>>

\* ------------------------------------------ activateLatestFlow (lines 63-108)
\* activateLatestFlow returns after printing `line`; the inner loop moves on.
Finish(line) ==
    /\ lastLine' = line
    /\ statusLine' = line
    /\ events' = Append(events, Event("line", selectedOrgs[orgIdx], flowIdx))
    /\ flowIdx' = flowIdx + 1
    /\ pc' = "flowLoop"
    /\ UNCHANGED <<orgIdx, exitCode, ending>>

\* Mutant of Catch: the error is printed and thrown again, out of main().
CatchRethrows(flowApiName) ==
    /\ lastLine' = RemoteErrorLine(flowApiName)
    /\ statusLine' = RemoteErrorLine(flowApiName)
    /\ events' = Append(events, Event("line", selectedOrgs[orgIdx], flowIdx))
    /\ errOrgs' = errOrgs \cup {orgIdx}
    /\ pc' = "done"
    /\ ending' = "unhandled"
    /\ UNCHANGED <<flowIdx, orgIdx, exitCode>>

\* lines 105-107: the catch of activateLatestFlow
Catch(flowApiName) ==
    /\ Finish(RemoteErrorLine(flowApiName))
    /\ errOrgs' = errOrgs \cup {orgIdx}

\* A remote call is sent with the current credential.
Send(step, flowApiName, body, ok) ==
    /\ calls' = Append(calls, Call(step, flowApiName, body, ok))
    /\ calledUrls' = calledUrls \cup {cred.instanceUrl}

\* lines 68-77
VersionLookup ==
    /\ pc = "versionLookup"
    /\ LET flowApiName == FlowNames[flowIdx]
       IN  \E ok \in BOOLEAN :
             /\ Send("versionLookup", flowApiName, 0, ok)
             /\ snapshotMax' = remote.versions
             /\ IF ~ok
                THEN Catch(flowApiName) /\ UNCHANGED latestFlow
                ELSE /\ latestFlow' = LatestVersionQuery(remote)
                     /\ errOrgs' = errOrgs
                     /\ IF NoVersion(latestFlow')
                        THEN Finish(NotFoundLine(flowApiName))
                        ELSE /\ pc' = "definitionLookup"
                             /\ UNCHANGED <<lastLine, statusLine, events, flowIdx, orgIdx, exitCode, ending>>
    /\ UNCHANGED <<promptVars, orgVars, cred, flowDefinition, verificationResult, remote>>

\* lines 80-89
DefinitionLookup ==
    /\ pc = "definitionLookup"
    /\ LET flowApiName == FlowNames[flowIdx]
       IN  \E ok \in BOOLEAN :
             /\ Send("definitionLookup", flowApiName, 0, ok)
             /\ IF ~ok
                THEN Catch(flowApiName) /\ UNCHANGED flowDefinition
                ELSE /\ flowDefinition' = DefinitionQuery(remote)
                     /\ errOrgs' = errOrgs
                     /\ IF NoDefinition(flowDefinition')
                        THEN Finish(DefinitionNotFoundLine(flowApiName))
                        ELSE /\ pc' = "patch"
                             /\ UNCHANGED <<lastLine, statusLine, events, flowIdx, orgIdx, exitCode, ending>>
    /\ UNCHANGED <<promptVars, orgVars, cred, latestFlow, verificationResult, remote, snapshotMax>>

\* line 92: { Metadata: { activeVersionNumber: latestVersionNumber } }
PatchBody == Head(latestFlow).VersionNumber

\* lines 92-93.  The org refuses the patch when the definition record is gone.
Patch ==
    /\ pc = "patch"
    /\ LET flowApiName == FlowNames[flowIdx]
       IN  \E ok \in {b \in BOOLEAN : b => remote.defExists} :
             /\ Send("patch", flowApiName, PatchBody, ok)
             /\ IF ~ok
                THEN Catch(flowApiName) /\ UNCHANGED remote
                ELSE /\ remote' = [remote EXCEPT !.active = PatchBody]
                     /\ errOrgs' = errOrgs
                     /\ pc' = "verification"
                     /\ UNCHANGED <<lastLine, statusLine, events, flowIdx, orgIdx, exitCode, ending>>
    /\ UNCHANGED <<promptVars, orgVars, cred, latestFlow, flowDefinition,
                   verificationResult, snapshotMax>>

\* lines 100-104
VerificationLine(flowApiName) ==
    IF Verified(verificationResult', Head(latestFlow).Id)
    THEN ActivatedLine(flowApiName, Head(latestFlow).VersionNumber)
    ELSE VerificationFailedLine(flowApiName, Head(latestFlow).VersionNumber)

\* lines 96-104
Verification ==
    /\ pc = "verification"
    /\ LET flowApiName == FlowNames[flowIdx]
       IN  \E ok \in BOOLEAN :
             /\ Send("verification", flowApiName, 0, ok)
             /\ IF ~ok
                THEN Catch(flowApiName) /\ UNCHANGED verificationResult
                ELSE /\ verificationResult' = VerificationQuery(remote)
                     /\ errOrgs' = errOrgs
                     /\ Finish(VerificationLine(flowApiName))
    /\ UNCHANGED <<promptVars, orgVars, cred, latestFlow, flowDefinition, remote, snapshotMax>>

\* ------------------------------------------- the org's other users (§3, §7)
InActivation == pc \in {"definitionLookup", "patch", "verification"}

envUnchanged == <<pc, promptVars, orgVars, loopVars, latestFlow, flowDefinition,
                  verificationResult, statusLine, calls, snapshotMax, historyVars,
                  exitCode, ending, lastLine>>

\* Another process saves a new version of the flow.
OtherAddsVersion ==
    /\ InActivation
    /\ remote.versions < MaxVersion
    /\ remote' = [remote EXCEPT !.versions = @ + 1]
    /\ UNCHANGED envUnchanged

\* Another process activates some version of the flow, or deactivates it.
OtherSetsActive ==
    /\ InActivation
    /\ \E v \in 0..remote.versions :
         /\ v # remote.active
         /\ remote' = [remote EXCEPT !.active = v]
    /\ UNCHANGED envUnchanged

\* Another process removes the definition record (or the access to it).
OtherRemovesDefinition ==
    /\ InActivation
    /\ remote.defExists
    /\ remote' = [remote EXCEPT !.defExists = FALSE]
    /\ UNCHANGED envUnchanged

\* ---------------------------------------------------------- specifications
Next ==
    \/ \E input \in RunInputs : FlowPromptSubmit(input)
    \/ FlowPromptCancel
    \/ GetAuthenticatedOrgsOk
    \/ GetAuthenticatedOrgsFail
    \/ OrgPromptSubmit
    \/ OrgPromptCancel
    \/ ConfirmPromptAnswer
    \/ MainReturns
    \/ GetSfInstanceOk
    \/ GetSfInstanceFail
    \/ NextOrg
    \/ BeginActivation
    \/ VersionLookup
    \/ DefinitionLookup
    \/ Patch
    \/ Verification
    \/ OtherAddsVersion
    \/ OtherSetsActive
    \/ OtherRemovesDefinition

Spec == Init /\ [][Next]_vars

\* The flow-name prompt alone, over every input up to MaxLen.
NextFormat ==
    \/ \E input \in AllInputs : FlowPromptSubmit(input)
    \/ FlowPromptCancel

SpecFormat == Init /\ [][NextFormat]_vars

\* ------------------------------------------------- vocabulary of the claims
IsPrefix(s, t) == Len(s) <= Len(t) /\ SubSeq(t, 1, Len(s)) = s

Last(s) == s[Len(s)]

ActivationPcs == {"versionLookup", "definitionLookup", "patch", "verification"}

RECURSIVE FlowEventsFrom(_, _)
FlowEventsFrom(org, j) ==
    IF j > Len(FlowNames) THEN << >>
    ELSE <<Event("activate", org, j), Event("line", org, j)>> \o FlowEventsFrom(org, j + 1)

RECURSIVE RunEventsFrom(_)
RunEventsFrom(i) ==
    IF i > Len(selectedOrgs) THEN << >>
    ELSE <<Event("banner", selectedOrgs[i], 0), Event("credential", selectedOrgs[i], 0)>>
         \o FlowEventsFrom(selectedOrgs[i], 1) \o RunEventsFrom(i + 1)

\* What a run over selectedOrgs x flowNames does when nothing halts it.
ExpectedEvents == RunEventsFrom(1)

EventsOf(kind) == {k \in DOMAIN events : events[k].kind = kind}

\* The invocation of the activator that is running or ran last.
LastActivate ==
    events[CHOOSE k \in EventsOf("activate") : \A m \in EventsOf("activate") : m <= k]

CallsOf(step) == {k \in DOMAIN calls : calls[k].step = step}

UrlOf(orgAlias) == <<"url", orgAlias>>

\* ---------------------------------------------------------------------- C1
\* C1: when credential resolution fails for the org at position orgIdx of the
\* selection, the process has exited with code 1 and nothing can happen any
\* more; no activation was invoked and no remote call was sent for that org or
\* for any org selected after it, and no credential was resolved for any org
\* after it.
C1_CredentialFailureHalts ==
    ending = "credentialFailed" =>
        /\ pc = "done"
        /\ exitCode = 1
        /\ ~ENABLED Next
        /\ orgIdx \in 1..Len(selectedOrgs)
        /\ Last(events) = Event("credential", selectedOrgs[orgIdx], 0)
        /\ \A j \in orgIdx..Len(selectedOrgs) :
             /\ UrlOf(selectedOrgs[j]) \notin calledUrls
             /\ \A k \in DOMAIN calls : calls[k].instanceUrl # UrlOf(selectedOrgs[j])
             /\ \A k \in EventsOf("activate") \cup EventsOf("line") :
                  events[k].org # selectedOrgs[j]
        /\ \A j \in (orgIdx + 1)..Len(selectedOrgs) :
             \A k \in DOMAIN events : events[k].org # selectedOrgs[j]

\* The second of two selected orgs fails after the first one's flows were processed.
C1_Witness ==
    /\ ending = "credentialFailed"
    /\ Len(selectedOrgs) = 2
    /\ orgIdx = 2
    /\ UrlOf(selectedOrgs[1]) \in calledUrls

\* ---------------------------------------------------------------------- C2
\* C2 (as claimed): once an activation has ended in a remote error, the run ends
\* with exit code 0 having invoked the activator for every flow of every
\* selected org.
C2_AsClaimed ==
    (pc = "done" /\ errOrgs # {}) =>
        /\ exitCode = 0
        /\ events = ExpectedEvents

\* C2 (amended): a failed remote call is the last call of its activation, which
\* ends with the RemoteError line and hands control back to the inner loop; the
\* activator is still invoked for every flow of the org the error happened in;
\* and the run ends either with exit code 0 having invoked the activator for
\* every flow of every selected org, or with exit code 1 because credential
\* resolution failed for a later org.
C2_RemoteErrorIsLocal ==
    /\ \A k \in DOMAIN calls :
         ~calls[k].ok =>
            /\ k = Len(calls)
            /\ pc \notin ActivationPcs
            /\ statusLine.kind = "RemoteError"
            /\ LastActivate.org \in {selectedOrgs[i] : i \in errOrgs}
    /\ statusLine.kind = "RemoteError" =>
         /\ calls # << >>
         /\ ~Last(calls).ok
         /\ ending \in {"running", "completed", "credentialFailed"}
         /\ ending = "running" => pc \in {"flowLoop", "orgLoop"} \cup ActivationPcs
    /\ (pc = "done" /\ errOrgs # {}) =>
         /\ \A i \in errOrgs : \A j \in 1..Len(FlowNames) :
              \E k \in EventsOf("activate") :
                  events[k] = Event("activate", selectedOrgs[i], j)
         /\ \/ ending = "completed" /\ exitCode = 0 /\ events = ExpectedEvents
            \/ /\ ending = "credentialFailed" /\ exitCode = 1
               /\ \A i \in errOrgs : i < orgIdx

\* The first of two flows of the first of two orgs fails at the patch, and the
\* run completes.
C2_Witness ==
    /\ ending = "completed"
    /\ exitCode = 0
    /\ errOrgs = {1}
    /\ Len(selectedOrgs) = 2
    /\ Len(FlowNames) = 2
    /\ statusLine.kind = "Activated"

\* ---------------------------------------------------------------------- C3
\* C3: a patch or verification call is sent only after the version lookup and
\* the definition lookup each returned a record; a version lookup that returns
\* no record ends the activation with FlowNotFound after that one call, and a
\* definition lookup that returns no record ends it with DefinitionNotFound
\* after those two calls.
C3_PatchOnlyAfterBothLookups ==
    /\ \A k \in CallsOf("patch") \cup CallsOf("verification") :
         /\ k > 2
         /\ calls[1].step = "versionLookup" /\ calls[1].ok /\ latestFlow # << >>
         /\ calls[2].step = "definitionLookup" /\ calls[2].ok /\ flowDefinition # << >>
    /\ (calls # << >> /\ calls[1].ok /\ latestFlow = << >>) =>
         /\ Len(calls) = 1
         /\ statusLine = NotFoundLine(FlowNames[LastActivate.flow])
    /\ (Len(calls) >= 2 /\ calls[2].ok /\ flowDefinition = << >>) =>
         /\ Len(calls) = 2
         /\ calls[1].ok /\ latestFlow # << >>
         /\ statusLine = DefinitionNotFoundLine(FlowNames[LastActivate.flow])
    /\ statusLine.kind = "FlowNotFound" => Len(calls) = 1 /\ latestFlow = << >>
    /\ statusLine.kind = "DefinitionNotFound" => Len(calls) = 2 /\ flowDefinition = << >>

\* The version lookup found a version, the definition lookup found nothing.
C3_Witness ==
    /\ statusLine.kind = "DefinitionNotFound"
    /\ latestFlow # << >>
    /\ Len(calls) = 2

\* ---------------------------------------------------------------------- C4
\* C4: when the verification query itself succeeds, the activation prints
\* Activated(versionNumber) if the query returned a record whose ActiveVersionId
\* is the Id the step-1 lookup found, and VerificationFailed(versionNumber)
\* otherwise (another Id, no active version, or no record), with versionNumber
\* the number the step-1 lookup found; and neither line is printed otherwise.
C4_ActivatedIffVerified ==
    LET matches == /\ verificationResult # << >>
                   /\ Head(verificationResult).ActiveVersionId = Head(latestFlow).Id
        name    == FlowNames[LastActivate.flow]
        number  == Head(latestFlow).VersionNumber
    IN  /\ \A k \in CallsOf("verification") :
             calls[k].ok =>
                /\ k = 4
                /\ calls[3].step = "patch" /\ calls[3].ok
                /\ statusLine = IF matches THEN ActivatedLine(name, number)
                                ELSE VerificationFailedLine(name, number)
        /\ statusLine.kind \in {"Activated", "VerificationFailed"} =>
             /\ Len(calls) = 4
             /\ calls[4].step = "verification" /\ calls[4].ok
             /\ statusLine.kind = "Activated" <=> matches

\* The patch went through and the verification query answered, with another
\* version active than the one patched.
C4_Witness ==
    /\ statusLine.kind = "VerificationFailed"
    /\ verificationResult # << >>
    /\ Head(verificationResult).ActiveVersionId # Head(latestFlow).Id
    /\ calls[3].ok

\* ---------------------------------------------------------------------- C5
\* C5: what main() does after the confirmation is always a prefix of the
\* org-major, flow-minor sequence (banner and credential of an org, then for
\* each flow name in entry order the activator's invocation followed by its
\* status line) and is the whole sequence when the loop completes; an
\* activation is in progress exactly between its invocation and its line; every
\* remote call of an activation carries the credential resolved for its org and
\* the flow name of its entry; and no org receives a remote call before its
\* credential was resolved.
C5_OrgMajorFlowMinorOrder ==
    /\ events # << >> => confirmation /\ flowAnswers # << >>
    /\ flowAnswers # << >> => IsPrefix(events, ExpectedEvents)
    /\ ending = "completed" => events = ExpectedEvents
    /\ pc \in ActivationPcs <=> (events # << >> /\ Last(events).kind = "activate")
    /\ pc \in ActivationPcs =>
         LastActivate = Event("activate", selectedOrgs[orgIdx], flowIdx)
    /\ \A k \in DOMAIN calls :
         /\ calls[k].accessToken = <<"token", LastActivate.org>>
         /\ calls[k].instanceUrl = UrlOf(LastActivate.org)
         /\ calls[k].flowApiName = FlowNames[LastActivate.flow]
    /\ calledUrls \subseteq {UrlOf(events[k].org) : k \in EventsOf("credential")}

\* "a;b" over two orgs ran to completion: four status lines.
C5_Witness ==
    /\ ending = "completed"
    /\ Len(selectedOrgs) = 2
    /\ FlowNames = << <<"a">>, <<"b">> >>
    /\ Cardinality(EventsOf("line")) = 4

\* ---------------------------------------------------------------------- C6
\* C6: the flow-name list the prompt hands on holds only non-empty, trimmed names.
C6_NamesTrimmedAndNonEmpty ==
    flowAnswers # << >> =>
        \A i \in DOMAIN FlowNames :
            /\ FlowNames[i] # << >>
            /\ Trim(FlowNames[i]) = FlowNames[i]

\* ---------------------------------------------------------------------- C7
\* C7: as long as the operator has not answered yes to the confirmation, main()
\* has resolved no credential, invoked no activation and sent no remote call;
\* and a run that ends without that yes ends with the "Operation cancelled."
\* line and exit code 0, unless the org listing failed.
C7_NoWorkWithoutConfirmation ==
    ~confirmation =>
        /\ events = << >>
        /\ calls = << >>
        /\ calledUrls = {}
        /\ cred = NoCredential
        /\ pc \in {"flowPrompt", "listOrgs", "orgPrompt", "confirmPrompt", "done"}
        /\ pc = "done" =>
             \/ ending = "listFailed" /\ exitCode = 1
             \/ ending = "cancelled" /\ exitCode = 0 /\ lastLine = CancelledLine

\* The operator got as far as the confirmation and did not say yes.
C7_Witness ==
    /\ pc = "done"
    /\ ~confirmation
    /\ selectedOrgs # << >>
    /\ ending = "cancelled"

\* ---------------------------------------------------------------------- C8
\* C8: the choices offered are the aliases of the listing's "Connected" entries,
\* in the listing's order; every selected org, every org whose credential is
\* resolved and every org that receives a remote call is such an entry.
C8_OnlyConnectedOrgs ==
    LET connected == SelectSeq(nonScratchOrgs, LAMBDA o : o.connectedStatus = "Connected")
        aliases   == {connected[i].alias : i \in DOMAIN connected}
    IN  /\ Len(orgChoices) = Len(connected)
        /\ \A i \in DOMAIN orgChoices :
             /\ orgChoices[i].value = connected[i].alias
             /\ orgChoices[i].title = connected[i].alias
        /\ pc \notin {"flowPrompt", "listOrgs"} /\ ending # "listFailed" /\ flowAnswers # << >>
             => \A i \in DOMAIN nonScratchOrgs :
                   nonScratchOrgs[i].connectedStatus = "Connected"
                     <=> \E c \in DOMAIN orgChoices : orgChoices[c].value = nonScratchOrgs[i].alias
        /\ \A i \in DOMAIN selectedOrgs : selectedOrgs[i] \in aliases
        /\ \A k \in DOMAIN events : events[k].org \in aliases
        /\ calledUrls \subseteq {UrlOf(a) : a \in aliases}

\* A listing with a connected and a disconnected org; the connected one was processed.
C8_Witness ==
    /\ ending = "completed"
    /\ \E i \in DOMAIN nonScratchOrgs : nonScratchOrgs[i].connectedStatus # "Connected"
    /\ calledUrls # {}

\* ---------------------------------------------------------------------- C9
\* C9: every activation prints exactly one status line, and the line of a
\* recoverable outcome names the flow being activated.
C9_OneLineNamingTheFlow ==
    /\ Cardinality(EventsOf("line")) =
         Cardinality(EventsOf("activate")) - (IF pc \in ActivationPcs THEN 1 ELSE 0)
    /\ statusLine.kind \in {"FlowNotFound", "DefinitionNotFound", "VerificationFailed",
                            "RemoteError"} =>
         \E i \in DOMAIN statusLine.names : statusLine.names[i] = FlowNames[LastActivate.flow]

\* ---------------------------------------------------------------------- C10
\* C10: every patch an activation sends carries the highest versionNumber the
\* flow had when that activation's version lookup ran, whatever another process
\* did to the flow since, and an activation sends at most one patch.
C10_PatchesSnapshotMaximum ==
    /\ Cardinality(CallsOf("patch")) <= 1
    /\ \A k \in CallsOf("patch") :
         /\ calls[k].body = snapshotMax
         /\ snapshotMax >= 1
         /\ calls[k].body = Head(latestFlow).VersionNumber

\* Another process added a version between the lookup and the end of the
\* activation: the patch still carried the older number.
C10_Witness ==
    /\ CallsOf("patch") # {}
    /\ remote.versions > snapshotMax
    /\ statusLine.kind = "VerificationFailed"

====
